---- MODULE Spec2Model ----
(***************************************************************************)
(* Model of the extraction pipeline of the contour backend:                *)
(*   parse_gpx            (src/backend/gpx_parser.py)                      *)
(*   extract_geotiff_data (src/backend/terrain.py)                         *)
(*   extract_from_image   (src/backend/terrain.py)                         *)
(*   process_heightmap    (src/backend/terrain.py)                         *)
(* Every function is stateless: a behaviour is one call, from its          *)
(* arguments (drawn by the initial predicate) to its return value.         *)
(***************************************************************************)
EXTENDS Integers, Sequences, FiniteSets

VARIABLES pc, args, loc, ret

vars == <<pc, args, loc, ret>>

None == "None"

(***************************************************************************)
(* Python float arithmetic (IEEE-754 binary64, round to nearest even).     *)
(* A float is [kind, neg, m, e]: kind "num" has the value                  *)
(* (-1)^neg * M * 2^e, where the 53-bit significand M, 2^52 <= M < 2^53,   *)
(* is held as three limbs m = <<m2, m1, m0>>, M = m2*2^36 + m1*2^18 + m0.  *)
(* Kind "zero" is 0.0 and kind "nan" is NaN.  Operands of a division are   *)
(* below 2^15 and integer factors below 2^13, so that no intermediate      *)
(* value leaves 32 bits.                                                   *)
(***************************************************************************)
Limb == 2^18

FZero == [kind |-> "zero", neg |-> FALSE, m |-> <<0, 0, 0>>, e |-> 0]

FNaN == [kind |-> "nan", neg |-> FALSE, m |-> <<0, 0, 0>>, e |-> 0]

Abs(x) == IF x < 0 THEN -x ELSE x

Max2(a, b) == IF a > b THEN a ELSE b

Min2(a, b) == IF a < b THEN a ELSE b

\* the number of binary digits of n >= 0
RECURSIVE BitLen(_)
BitLen(n) == IF n = 0 THEN 0 ELSE 1 + BitLen(n \div 2)

\* <<floor(q * 2^k + r * 2^k / d), remainder>> for r < d, nine bits at a time
RECURSIVE ShiftDivFrom(_, _, _, _)
ShiftDivFrom(q, r, k, d) ==
    IF k = 0 THEN <<q, r>>
    ELSE LET c == Min2(k, 9)
         IN  ShiftDivFrom(q * 2^c + (r * 2^c) \div d, (r * 2^c) % d, k - c, d)

\* <<floor(x * 2^k / d), (x * 2^k) mod d>>
ShiftDiv(x, k, d) == ShiftDivFrom(x \div d, x % d, k, d)

\* the significand m plus one unit in the last place: <<limbs, exponent carry>>
Inc3(m) ==
    IF m[3] + 1 < Limb THEN << <<m[1], m[2], m[3] + 1>>, 0 >>
    ELSE IF m[2] + 1 < Limb THEN << <<m[1], m[2] + 1, 0>>, 0 >>
    ELSE IF m[1] + 1 < 2^17 THEN << <<m[1] + 1, 0, 0>>, 0 >>
    ELSE << <<2^16, 0, 0>>, 1 >>

\* a / b for integers a, b: Python's true division (b = 0 is the caller's case)
FDiv(a, b) ==
    IF a = 0 THEN FZero
    ELSE LET A  == Abs(a)
             B  == Abs(b)
             e0 == BitLen(A) - BitLen(B)
             e  == IF A * 2^Max2(0, -e0) >= B * 2^Max2(0, e0) THEN e0 ELSE e0 - 1
             s2 == ShiftDiv(A, 16 - e, B)
             s1 == ShiftDiv(s2[2], 18, B)
             s0 == ShiftDiv(s1[2], 18, B)
             m  == <<s2[1], s1[1], s0[1]>>
             up == 2 * s0[2] > B \/ (2 * s0[2] = B /\ s0[1] % 2 = 1)
             r  == IF up THEN Inc3(m) ELSE <<m, 0>>
         IN  [kind |-> "num", neg |-> (a < 0) # (b < 0), m |-> r[1],
              e |-> e - 52 + r[2]]

\* f * k for a float f and an integer k >= 0 (exactly representable)
FMulInt(f, k) ==
    IF f.kind = "nan" THEN FNaN
    ELSE IF f.kind = "zero" \/ k = 0 THEN FZero
    ELSE LET x0 == f.m[3] * k
             x1 == f.m[2] * k + x0 \div Limb
             p0 == x0 % Limb
             p1 == x1 % Limb
             p2 == f.m[1] * k + x1 \div Limb
             t  == BitLen(p2) - 17
             T  == 2^t
             m  == <<p2 \div T,
                     p1 \div T + (p2 % T) * (Limb \div T),
                     p0 \div T + (p1 % T) * (Limb \div T)>>
             rem == p0 % T
             up == /\ t > 0
                   /\ \/ 2 * rem > T
                      \/ 2 * rem = T /\ m[3] % 2 = 1
             r  == IF up THEN Inc3(m) ELSE <<m, 0>>
         IN  [kind |-> "num", neg |-> f.neg, m |-> r[1], e |-> f.e + t + r[2]]

\* f < g for positive floats, as min() compares them
FLess(f, g) ==
    \/ f.e < g.e
    \/ /\ f.e = g.e
       /\ \/ f.m[1] < g.m[1]
          \/ f.m[1] = g.m[1] /\ f.m[2] < g.m[2]
          \/ f.m[1] = g.m[1] /\ f.m[2] = g.m[2] /\ f.m[3] < g.m[3]

\* min(f, g) of Python: g when g < f, else f
FMin(f, g) == IF FLess(g, f) THEN g ELSE f

\* int(f): truncation toward zero, for |f| < 2^31
FTrunc(f) ==
    IF f.kind # "num" \/ f.e <= -53 THEN 0
    ELSE LET t == -f.e
             n == IF t >= 36 THEN f.m[1] \div 2^(t - 36)
                  ELSE f.m[1] * 2^(36 - t) + f.m[2] \div 2^(t - 18)
         IN  IF f.neg THEN -n ELSE n

\* f >= 2^30: beyond every integer the model compares a float with
FHuge(f) == f.kind = "num" /\ f.e > -23

(***************************************************************************)
(* parse_gpx(file_path, simplify_factor)                                   *)
(* The document is modelled by its trkpt elements in document order, each  *)
(* [lat, lon, ele] with ele = <<v>>, or <<>> when it has no <ele> child.    *)
(* Coordinates are integers: only their order and equality are used.       *)
(***************************************************************************)
MaxCount == 5

MaxStride == 4

TrkPts ==
    { [lat |-> 0,  lon |-> 0,  ele |-> <<>>],
      [lat |-> 1,  lon |-> -1, ele |-> <<2>>],
      [lat |-> -1, lon |-> 2,  ele |-> <<-1>>] }

Tracks == UNION { [1..n -> TrkPts] : n \in 0..MaxCount }

\* Python's max() and min() of a non-empty list.
RECURSIVE SeqMax(_)
SeqMax(s) ==
    IF Len(s) = 1 THEN s[1]
    ELSE LET r == SeqMax(Tail(s)) IN IF r > s[1] THEN r ELSE s[1]

RECURSIVE SeqMin(_)
SeqMin(s) ==
    IF Len(s) = 1 THEN s[1]
    ELSE LET r == SeqMin(Tail(s)) IN IF r < s[1] THEN r ELSE s[1]

InitGpx ==
    /\ pc = "parse"
    /\ \E t \in Tracks, s \in 1..MaxStride :
          args = [fn |-> "parse_gpx", trkpts |-> t, simplify_factor |-> s]
    /\ loc = [all_lats |-> <<>>, all_lons |-> <<>>, all_eles |-> <<>>,
              points |-> <<>>, total_points |-> 0, i |-> 0,
              bounds |-> None, elevation_range |-> None]
    /\ ret = None

\* lines 37-53: collect every trkpt, then total_points = len(all_lats)
ParseTrkpts ==
    /\ pc = "parse"
    /\ LET t == args.trkpts IN
       loc' = [loc EXCEPT
                 !.all_lats = [k \in 1..Len(t) |-> t[k].lat],
                 !.all_lons = [k \in 1..Len(t) |-> t[k].lon],
                 !.all_eles = [k \in 1..Len(t) |->
                                 IF t[k].ele # <<>> THEN t[k].ele[1] ELSE 0],
                 !.total_points = Len(t),
                 !.i = 0]
    /\ pc' = "decimate"
    /\ UNCHANGED <<args, ret>>

\* the point appended for source index i (0-based)
PointAt(i) ==
    [lat |-> loc.all_lats[i + 1], lon |-> loc.all_lons[i + 1],
     ele |-> loc.all_eles[i + 1]]

\* lines 54-59: one iteration of  for i in range(0, total_points, simplify_factor)
DecimateStep ==
    /\ pc = "decimate"
    /\ loc.i < loc.total_points
    /\ loc' = [loc EXCEPT !.points = Append(@, PointAt(loc.i)),
                          !.i = @ + args.simplify_factor]
    /\ UNCHANGED <<pc, args, ret>>

\* the range is exhausted
DecimateEnd ==
    /\ pc = "decimate"
    /\ loc.i >= loc.total_points
    /\ pc' = "last"
    /\ UNCHANGED <<args, loc, ret>>

NeedsLastMisaligned(total_points, simplify_factor) ==
    total_points > 0 /\ total_points % simplify_factor # 0

NeedsLastAlways(total_points, simplify_factor) ==
    total_points > 0

\* line 62: the condition of "Always include the last point"
NeedsLast(total_points, simplify_factor) ==
    total_points > 0 /\ (total_points - 1) % simplify_factor # 0

\* lines 61-67
AppendLast ==
    /\ pc = "last"
    /\ loc' = [loc EXCEPT !.points =
                 IF NeedsLast(loc.total_points, args.simplify_factor)
                 THEN Append(@, PointAt(loc.total_points - 1))
                 ELSE @]
    /\ pc' = "bounds"
    /\ UNCHANGED <<args, ret>>

\* a plausible slip: extent taken over the kept points only
ExtentOfKept(lats, lons, eles) ==
    LET pl == [k \in 1..Len(loc.points) |-> loc.points[k].lat]
        pn == [k \in 1..Len(loc.points) |-> loc.points[k].lon]
        pe == [k \in 1..Len(loc.points) |-> loc.points[k].ele]
    IN  IF lats # <<>>
        THEN [bounds |-> [north |-> SeqMax(pl), south |-> SeqMin(pl),
                          east |-> SeqMax(pn), west |-> SeqMin(pn)],
              elevation_range |-> [min |-> SeqMin(pe), max |-> SeqMax(pe)]]
        ELSE [bounds |-> [north |-> 0, south |-> 0, east |-> 0, west |-> 0],
              elevation_range |-> [min |-> 0, max |-> 0]]

\* lines 70-83
Extent(lats, lons, eles) ==
    IF lats # <<>>
    THEN [bounds |-> [north |-> SeqMax(lats), south |-> SeqMin(lats),
                      east |-> SeqMax(lons), west |-> SeqMin(lons)],
          elevation_range |-> [min |-> SeqMin(eles), max |-> SeqMax(eles)]]
    ELSE [bounds |-> [north |-> 0, south |-> 0, east |-> 0, west |-> 0],
          elevation_range |-> [min |-> 0, max |-> 0]]

CalcBounds ==
    /\ pc = "bounds"
    /\ LET x == Extent(loc.all_lats, loc.all_lons, loc.all_eles) IN
       loc' = [loc EXCEPT !.bounds = x.bounds,
                          !.elevation_range = x.elevation_range]
    /\ pc' = "return"
    /\ UNCHANGED <<args, ret>>

\* lines 85-92
ReturnGpx ==
    /\ pc = "return"
    /\ args.fn = "parse_gpx"
    /\ ret' = [points |-> loc.points,
               bounds |-> loc.bounds,
               elevation_range |-> loc.elevation_range,
               total_points |-> loc.total_points,
               simplified_points |-> Len(loc.points)]
    /\ pc' = "done"
    /\ UNCHANGED <<args, loc>>

NextGpx ==
    \/ ParseTrkpts
    \/ DecimateStep
    \/ DecimateEnd
    \/ AppendLast
    \/ CalcBounds
    \/ ReturnGpx

SpecGpx == InitGpx /\ [][NextGpx]_vars

GpxDone == pc = "done" /\ args.fn = "parse_gpx"

Count == Len(args.trkpts)

Stride == args.simplify_factor

CeilDiv(a, b) == (a + b - 1) \div b

\* the source sample at 1-based index k, with the elevation default applied
SrcPoint(k) ==
    [lat |-> args.trkpts[k].lat, lon |-> args.trkpts[k].lon,
     ele |-> IF args.trkpts[k].ele # <<>> THEN args.trkpts[k].ele[1] ELSE 0]

\* C1: for every track of count points and every stride s >= 1, the number of
\* points returned (and reported as simplified_points) is ceil(count/s), plus
\* exactly one iff count > 0 and (count-1) mod s # 0.
C1_DecimatedLength ==
    GpxDone =>
      LET extra == IF Count > 0 /\ (Count - 1) % Stride # 0 THEN 1 ELSE 0
      IN  /\ Len(ret.points) = CeilDiv(Count, Stride) + extra
          /\ ret.simplified_points = CeilDiv(Count, Stride) + extra

C1_Witness ==
    /\ GpxDone
    /\ Count = 5 /\ Stride = 3
    /\ ret.simplified_points = 3

\* C2: for every non-empty track and every stride s >= 1, the last point of
\* the decimated output equals the last point of the source track.
C2_LastPointKept ==
    (GpxDone /\ Count > 0) =>
      /\ ret.points # <<>>
      /\ ret.points[Len(ret.points)] = SrcPoint(Count)

C2_Witness ==
    /\ GpxDone
    /\ Count = 4 /\ Stride = 2
    /\ SrcPoint(4) # SrcPoint(3)
    /\ ret.points[Len(ret.points)] = SrcPoint(4)

\* C3: for a non-empty track the bounds and the elevation range are the
\* minimum and maximum over all source points, whatever the stride and the
\* kept points, so north >= south and east >= west; for an empty track all
\* six fields are 0 and the call still returns.
C3_BoundsOverAllPoints ==
    GpxDone =>
      LET b == ret.bounds
          r == ret.elevation_range
          I == 1..Count
      IN  IF Count > 0
          THEN /\ \A k \in I : /\ b.south <= SrcPoint(k).lat
                               /\ SrcPoint(k).lat <= b.north
                               /\ b.west <= SrcPoint(k).lon
                               /\ SrcPoint(k).lon <= b.east
                               /\ r.min <= SrcPoint(k).ele
                               /\ SrcPoint(k).ele <= r.max
               /\ \E k \in I : b.north = SrcPoint(k).lat
               /\ \E k \in I : b.south = SrcPoint(k).lat
               /\ \E k \in I : b.east = SrcPoint(k).lon
               /\ \E k \in I : b.west = SrcPoint(k).lon
               /\ \E k \in I : r.min = SrcPoint(k).ele
               /\ \E k \in I : r.max = SrcPoint(k).ele
               /\ b.north >= b.south
               /\ b.east >= b.west
          ELSE /\ b = [north |-> 0, south |-> 0, east |-> 0, west |-> 0]
               /\ r = [min |-> 0, max |-> 0]

\* a track whose northernmost point is dropped by the decimation
C3_Witness ==
    /\ GpxDone
    /\ Count = 4 /\ Stride = 3
    /\ \A k \in 1..Len(ret.points) : ret.points[k].lat < ret.bounds.north
    /\ ret.bounds.north = 1

\* p is a subsequence of t (same order, possibly with gaps)
RECURSIVE IsSubseq(_, _)
IsSubseq(p, t) ==
    IF p = <<>> THEN TRUE
    ELSE IF t = <<>> THEN FALSE
    ELSE IF p[1] = t[1] THEN IsSubseq(Tail(p), Tail(t))
    ELSE IsSubseq(p, Tail(t))

SrcPoints == [k \in 1..Count |-> SrcPoint(k)]

\* C4 as stated: the decimated sequence is strictly smaller than the source
\* track, for every track and every stride s >= 1, and keeps source order.
C4_StrictlySmaller ==
    GpxDone =>
      /\ ret.simplified_points < ret.total_points
      /\ IsSubseq(ret.points, SrcPoints)

\* C4 (amended): the decimated sequence is never longer than the source
\* track, is strictly shorter exactly when s >= 2 and count >= 3, and its
\* points appear in source order.
C4_NeverLonger ==
    GpxDone =>
      /\ ret.total_points = Count
      /\ ret.simplified_points <= ret.total_points
      /\ (ret.simplified_points < ret.total_points) <=> (Stride >= 2 /\ Count >= 3)
      /\ IsSubseq(ret.points, SrcPoints)

C4_Witness ==
    /\ GpxDone
    /\ Count = 2 /\ Stride = 2
    /\ ret.simplified_points = 2
    /\ ret.total_points = 2


(***************************************************************************)
(* extract_geotiff_data(file_path)                                         *)
(* src is the opened raster: dtype, count (bands), nodata (<<>> for None,  *)
(* else <<v>>), width, height and data, one sequence of cell values per    *)
(* band.  A cell stands for a block of equal pixels, so the number of      *)
(* cells is independent of width * height.  filter = <<>> for a grid given *)
(* as is, or the resampling it came out of.  The model starts after the    *)
(* HAS_RASTERIO check (lines 35-36) has passed; the reprojection of the    *)
(* bounds (lines 40-46) is rasterio's and is left out.                     *)
(***************************************************************************)
max_dim == 2048

MaxCells == 4

MaxRgbCells == 2

\* astype(np.uint8) of a NaN or out-of-range float is not defined by numpy:
\* the values a build may store
UBVals == {0, 255}

Vals(dtype) == IF dtype = "uint8" THEN {0, 100, 255} ELSE {-9999, 0, 500, 1000}

NoDatas(dtype) == IF dtype = "uint8" THEN {<<>>, <<0>>} ELSE {<<>>, <<-9999>>, <<500>>}

\* the values of the second band; further bands are constant
Vals2(dtype) == IF dtype = "uint8" THEN {100, 255} ELSE {500, 1000}

Fill(dtype) == IF dtype = "uint8" THEN 100 ELSE 500

Grids(dtype, count) ==
    LET n1 == IF count >= 3 THEN MaxRgbCells ELSE MaxCells
        b1 == UNION { [1..n -> Vals(dtype)] : n \in 1..n1 }
    IN  IF count = 1 THEN { <<b>> : b \in b1 }
        ELSE IF count = 2
        THEN { <<b, [k \in 1..Len(b) |-> Fill(dtype)]>> : b \in b1 }
        ELSE { <<x[1], x[2]>> \o [j \in 1..(count - 2) |-> [k \in 1..Len(x[1]) |-> Fill(dtype)]] :
                 x \in { y \in b1 \X UNION { [1..n -> Vals2(dtype)] : n \in 1..n1 } :
                           Len(y[1]) = Len(y[2]) } }

DTypes == {"uint8", "int16"}

BandCounts == {1, 2, 3, 4}

Rasters(dims) ==
    UNION { UNION { { [dtype |-> d, count |-> c, nodata |-> nd, data |-> g,
                       width |-> wh[1], height |-> wh[2], filter |-> <<>>] :
                        nd \in (IF c >= 3 THEN {<<>>} ELSE NoDatas(d)),
                        g \in Grids(d, c), wh \in dims } :
                    c \in BandCounts } :
            d \in DTypes }

RasterDims == { <<3, 2>>, <<4000, 1000>>, <<2049, 1>> }

GeotiffLocals ==
    [rgb |-> <<>>, b_min |-> 0, b_max |-> 0, div0 |-> FALSE, img |-> None,
     original_width |-> 0, original_height |-> 0, new_size |-> <<>>]

InitRaster ==
    /\ pc = "read"
    /\ \E r \in Rasters(RasterDims) :
          args = [fn |-> "extract_geotiff_data", src |-> r, pass |-> 1, first |-> None]
    /\ loc = GeotiffLocals
    /\ ret = None

NCells(data) == Len(data[1])

\* np.stack([data[0], data[1], data[2]], axis=-1): one <<r, g, b>> per cell
Stack3(b0, b1, b2) == [k \in 1..Len(b0) |-> <<b0[k], b1[k], b2[k]>>]

\* numpy int16 arithmetic wraps around
Wrap16(x) == ((x + 32768) % 65536) - 32768

Flatten(data) == data[1] \o data[2] \o data[3]

\* astype(np.uint8) of a float: truncation when it is in range, else ub
CastU8(f, ub) ==
    IF f.kind = "nan" THEN ub
    ELSE IF f.kind = "zero" THEN 0
    ELSE IF f.neg THEN (IF FTrunc(f) = 0 THEN 0 ELSE ub)
    ELSE IF FHuge(f) \/ FTrunc(f) > 255 THEN ub
    ELSE FTrunc(f)

\* a plausible slip: the stack is rescaled whatever its type
NeedsRescaleAlways(dtype) == TRUE

\* line 56: rgb.dtype != np.uint8
NeedsRescale(dtype) == dtype # "uint8"

\* lines 53-54 with line 56 false: an 8-bit raster of three or more bands
StackRGB8 ==
    /\ pc = "read"
    /\ args.fn = "extract_geotiff_data"
    /\ args.src.count >= 3
    /\ ~NeedsRescale(args.src.dtype)
    /\ loc' = [loc EXCEPT !.rgb = Stack3(args.src.data[1], args.src.data[2], args.src.data[3])]
    /\ pc' = "image"
    /\ UNCHANGED <<args, ret>>

\* line 57: ((rgb - rgb.min()) / (rgb.max() - rgb.min()) * 255).astype(np.uint8)
\* for one value v of the stack, in the raster's own integer type
Rescale255(v, lo, hi, ub) ==
    LET n == Wrap16(v - lo)
        d == Wrap16(hi - lo)
    IN  IF d = 0 THEN ub
        ELSE CastU8(FMulInt(FDiv(n, d), 255), ub)

\* lines 53-57: three or more bands, not 8-bit
RescaleRGB ==
    /\ pc = "read"
    /\ args.fn = "extract_geotiff_data"
    /\ args.src.count >= 3
    /\ NeedsRescale(args.src.dtype)
    /\ LET all == Flatten(args.src.data)
           lo  == SeqMin(all)
           hi  == SeqMax(all)
           raw == Stack3(args.src.data[1], args.src.data[2], args.src.data[3])
       IN  \E ub \in UBVals :
             loc' = [loc EXCEPT
                       !.rgb = [k \in 1..Len(raw) |->
                                  <<Rescale255(raw[k][1], lo, hi, ub),
                                    Rescale255(raw[k][2], lo, hi, ub),
                                    Rescale255(raw[k][3], lo, hi, ub)>>],
                       !.div0 = (Wrap16(hi - lo) = 0)]
    /\ pc' = "image"
    /\ UNCHANGED <<args, ret>>

\* a plausible slip: the no-data value is never masked out
ValidMaskAll(band, nodata) == [k \in 1..Len(band) |-> TRUE]

\* line 61
ValidMask(band, nodata) ==
    IF nodata # <<>> THEN [k \in 1..Len(band) |-> band[k] # nodata[1]]
    ELSE [k \in 1..Len(band) |-> TRUE]

\* band[valid_mask]
RECURSIVE Masked(_, _)
Masked(band, mask) ==
    IF band = <<>> THEN <<>>
    ELSE (IF mask[1] THEN <<band[1]>> ELSE <<>>) \o Masked(Tail(band), Tail(mask))

\* np.clip(x, 0, 255).astype(np.uint8) of the float x
ClipU8(f) ==
    IF f.kind # "num" \/ f.neg THEN 0
    ELSE IF FHuge(f) \/ FTrunc(f) >= 255 THEN 255
    ELSE FTrunc(f)

\* lines 66-71 for one pixel v of the band
Normalized(v, b_min, b_max) ==
    IF b_max > b_min
    THEN ClipU8(FMulInt(FDiv(v - b_min, b_max - b_min), 255))
    ELSE 0

\* lines 59-72: one or two bands
NormalizeSingleBand ==
    /\ pc = "read"
    /\ args.fn = "extract_geotiff_data"
    /\ args.src.count < 3
    /\ LET band  == args.src.data[1]
           mask  == ValidMask(band, args.src.nodata)
           any   == \E k \in 1..Len(band) : mask[k]
           b_min == IF any THEN SeqMin(Masked(band, mask)) ELSE 0
           b_max == IF any THEN SeqMax(Masked(band, mask)) ELSE 1
           normalized == [k \in 1..Len(band) |-> Normalized(band[k], b_min, b_max)]
       IN  loc' = [loc EXCEPT !.b_min = b_min, !.b_max = b_max,
                              !.rgb = Stack3(normalized, normalized, normalized)]
    /\ pc' = "image"
    /\ UNCHANGED <<args, ret>>

\* img.resize(new_size, Image.LANCZOS): the resampled grid is written as the
\* source grid together with the resampling applied to it
Resized(img, new_size) ==
    [img EXCEPT !.size = new_size,
                !.filter = Append(@, <<"LANCZOS", img.size, new_size>>)]

\* line 80 (and 123): the image exceeds the cap
Exceeds(width, height) == width > max_dim \/ height > max_dim

\* lines 81-82 (and 124-125): ratio and new_size
NewSize(width, height) ==
    LET ratio == FMin(FDiv(max_dim, width), FDiv(max_dim, height))
    IN  <<FTrunc(FMulInt(ratio, width)), FTrunc(FMulInt(ratio, height))>>

\* lines 75-76: Image.fromarray(rgb)
RgbImage == [mode |-> "RGB", size |-> <<args.src.width, args.src.height>>,
             px |-> loc.rgb, filter |-> args.src.filter]

\* lines 75-82: the image, its original size and, past the cap, new_size
\* (<<>> while new_size is unassigned)
GeotiffSize ==
    /\ pc = "image"
    /\ args.fn = "extract_geotiff_data"
    /\ LET img == RgbImage IN
       loc' = [loc EXCEPT
                 !.img = img,
                 !.original_width = img.size[1],
                 !.original_height = img.size[2],
                 !.new_size = IF Exceeds(img.size[1], img.size[2])
                              THEN NewSize(img.size[1], img.size[2])
                              ELSE <<>>]
    /\ pc' = "resize"
    /\ UNCHANGED <<args, ret>>

\* Image.resize accepts a size whose sides are both positive
SizeAccepted(size) == size[1] >= 1 /\ size[2] >= 1

\* lines 80, 83: the resize done, or skipped below the cap
GeotiffResize ==
    /\ pc = "resize"
    /\ args.fn = "extract_geotiff_data"
    /\ loc.new_size # <<>> => SizeAccepted(loc.new_size)
    /\ loc' = [loc EXCEPT !.img = IF loc.new_size # <<>>
                                  THEN Resized(@, loc.new_size) ELSE @]
    /\ pc' = "encode"
    /\ UNCHANGED <<args, ret>>

\* line 83: Image.resize raises ValueError on a size with a zero side
GeotiffResizeFails ==
    /\ pc = "resize"
    /\ args.fn = "extract_geotiff_data"
    /\ loc.new_size # <<>>
    /\ ~SizeAccepted(loc.new_size)
    /\ pc' = "raised"
    /\ ret' = "ValueError"
    /\ UNCHANGED <<args, loc>>

\* lines 86-89: the JPEG bytes, base64-encoded, kept as the image they encode
Jpeg85(img) == [codec |-> "JPEG", quality |-> 85, img |-> img]

\* lines 85-98
ReturnGeotiff ==
    /\ pc = "encode"
    /\ args.fn = "extract_geotiff_data"
    /\ ret' = [texture_b64 |-> Jpeg85(loc.img),
               width |-> loc.img.size[1],
               height |-> loc.img.size[2],
               original_width |-> loc.original_width,
               original_height |-> loc.original_height]
    /\ pc' = "done"
    /\ UNCHANGED <<args, loc>>

\* the returned texture read back as a raster: 8-bit, three bands, no no-data
TextureAsRaster(img) ==
    [dtype |-> "uint8", count |-> 3, nodata |-> <<>>,
     data |-> << [k \in 1..Len(img.px) |-> img.px[k][1]],
                 [k \in 1..Len(img.px) |-> img.px[k][2]],
                 [k \in 1..Len(img.px) |-> img.px[k][3]] >>,
     width |-> img.size[1], height |-> img.size[2], filter |-> img.filter]

\* a second call of extract_geotiff_data, on the texture the first returned
Rerun ==
    /\ pc = "done"
    /\ args.fn = "extract_geotiff_data"
    /\ args.pass = 1
    /\ args' = [fn |-> "extract_geotiff_data",
                src |-> TextureAsRaster(ret.texture_b64.img),
                pass |-> 2, first |-> ret]
    /\ loc' = GeotiffLocals
    /\ ret' = None
    /\ pc' = "read"

NextRaster ==
    \/ StackRGB8
    \/ RescaleRGB
    \/ NormalizeSingleBand
    \/ GeotiffSize
    \/ GeotiffResize
    \/ GeotiffResizeFails
    \/ ReturnGeotiff
    \/ Rerun

SpecRaster == InitRaster /\ [][NextRaster]_vars

Src == args.src

\* the band handling of extract_geotiff_data has run
Banded == args.fn = "extract_geotiff_data" /\ pc \in {"image", "resize", "encode", "done", "raised"}

SingleBand == Banded /\ Src.count < 3

Cells == 1..NCells(Src.data)

\* the pixels of band 0 that differ from the declared no-data value
ValidCells ==
    { k \in Cells : Src.nodata = <<>> \/ Src.data[1][k] # Src.nodata[1] }

AllChannels(v) == <<v, v, v>>

\* C6: on the single-band path the min and max used for rescaling are taken
\* over the pixels different from the declared no-data value only (all pixels
\* when none is declared); the valid min maps to 0 and the valid max to 255
\* when they differ, with no-data -9999 and valid range [0, 1000] a pixel of
\* 500 maps to 127 or 128, and every output pixel lies in [0, 255] and is the
\* same in the three channels.
C6_ScaleFromValidPixels ==
    SingleBand =>
      /\ ValidCells # {} =>
           /\ \E k \in ValidCells : loc.b_min = Src.data[1][k]
           /\ \E k \in ValidCells : loc.b_max = Src.data[1][k]
           /\ \A k \in ValidCells : /\ loc.b_min <= Src.data[1][k]
                                    /\ Src.data[1][k] <= loc.b_max
      /\ \A k \in Cells :
           /\ loc.rgb[k][1] \in 0..255
           /\ loc.rgb[k] = AllChannels(loc.rgb[k][1])
           /\ (k \in ValidCells /\ loc.b_max > loc.b_min) =>
                /\ Src.data[1][k] = loc.b_min => loc.rgb[k][1] = 0
                /\ Src.data[1][k] = loc.b_max => loc.rgb[k][1] = 255
           /\ ( /\ Src.nodata = <<-9999>>
                /\ loc.b_min = 0 /\ loc.b_max = 1000
                /\ Src.data[1][k] = 500 ) => loc.rgb[k][1] \in {127, 128}
      /\ Len(loc.rgb) = NCells(Src.data)

\* a band with a no-data pixel beside the valid pixels 0, 500 and 1000
C6_Witness ==
    /\ SingleBand
    /\ Src.nodata = <<-9999>>
    /\ \E k \in Cells : Src.data[1][k] = -9999 /\ loc.rgb[k] = <<0, 0, 0>>
    /\ \E k \in Cells : Src.data[1][k] = 500 /\ loc.rgb[k] = <<127, 127, 127>>
    /\ \E k \in Cells : Src.data[1][k] = 0
    /\ \E k \in Cells : Src.data[1][k] = 1000
    /\ loc.b_min = 0 /\ loc.b_max = 1000

\* the values the three-band path scales by: all of the first three bands
RgbValues == { Src.data[b][k] : b \in 1..3, k \in Cells }

\* C7 as stated: a degenerate raster never causes a division by zero or a
\* raised error; a flat raster normalizes to a defined texture on either band
\* path, all zero on the single-band path, and a single-band raster with no
\* valid pixel uses min = 0 and max = 1.
C7_DegenerateHandled ==
    (Banded /\ args.pass = 1) =>
      /\ ~loc.div0
      /\ (Src.count >= 3 /\ Src.dtype # "uint8" /\ Cardinality(RgbValues) = 1) =>
           \A k \in Cells : loc.rgb[k] = <<0, 0, 0>>
      /\ (Src.count < 3 /\ ValidCells # {} /\ loc.b_min = loc.b_max) =>
           \A k \in Cells : loc.rgb[k] = <<0, 0, 0>>
      /\ (Src.count < 3 /\ ValidCells = {}) =>
           loc.b_min = 0 /\ loc.b_max = 1

\* the raster's own pixel grid as 8-bit RGB cells
InputAsRgb ==
    IF Src.count >= 3 THEN Stack3(Src.data[1], Src.data[2], Src.data[3])
    ELSE Stack3(Src.data[1], Src.data[1], Src.data[1])

WithinCap == Src.width <= max_dim /\ Src.height <= max_dim

GeotiffDone == args.fn = "extract_geotiff_data" /\ pc = "done"

Unchanged ==
    /\ ret.texture_b64.img.px = InputAsRgb
    /\ ret.texture_b64.img.filter = Src.filter
    /\ ret.width = Src.width
    /\ ret.height = Src.height

\* C8 as stated: normalizing a raster that is already 8-bit and within the
\* cap leaves the pixel grid and the dimensions unchanged, and normalizing the
\* output texture of a first normalization returns that same texture and size.
C8_Idempotent ==
    GeotiffDone =>
      /\ (Src.dtype = "uint8" /\ WithinCap) => Unchanged
      /\ args.pass = 2 =>
           /\ ret.texture_b64 = args.first.texture_b64
           /\ ret.width = args.first.width
           /\ ret.height = args.first.height

\* C8 (amended): normalizing a raster of three or more bands that is already
\* 8-bit and within the cap leaves its first three bands and the dimensions
\* unchanged, and normalizing the output texture of a first normalization
\* that returned yields that same texture, width and height.
C8_IdempotentOnRgb ==
    GeotiffDone =>
      /\ (Src.count >= 3 /\ Src.dtype = "uint8" /\ WithinCap) => Unchanged
      /\ args.pass = 2 =>
           /\ ret.texture_b64 = args.first.texture_b64
           /\ ret.width = args.first.width
           /\ ret.height = args.first.height
           /\ Unchanged

\* the second pass over a texture that the first pass rescaled and downsized
C8_Witness ==
    /\ GeotiffDone
    /\ args.pass = 2
    /\ args.first.original_width = 4000
    /\ args.first.width = 2048
    /\ ret.width = 2048 /\ ret.height = 512
    /\ ret.texture_b64 = args.first.texture_b64
    /\ \E k \in Cells : ret.texture_b64.img.px[k] = <<127, 127, 127>>

(***************************************************************************)
(* extract_from_image(file_path)                                           *)
(* The file is modelled by the mode and the size of the image it holds.    *)
(***************************************************************************)
SmallSide == 2

Margin == 2

Sides ==
    (1..SmallSide) \cup ((max_dim - Margin)..(max_dim + Margin))
      \cup {512, 1000, 2215, 4000, 4097}

CapDims == Sides \X Sides

Modes == {"RGB", "L", "RGBA"}

\* one raster for every band path of extract_geotiff_data
CapRasters ==
    { [dtype |-> d, count |-> c, nodata |-> <<>>,
       data |-> [b \in 1..c |-> <<0, Fill(d)>>],
       width |-> wh[1], height |-> wh[2], filter |-> <<>>] :
        d \in DTypes, c \in {1, 3}, wh \in CapDims }

ImageLocals ==
    [img |-> None, original_width |-> 0, original_height |-> 0, new_size |-> <<>>]

InitCap ==
    \/ /\ pc = "read"
       /\ \E r \in CapRasters :
             args = [fn |-> "extract_geotiff_data", src |-> r, pass |-> 1, first |-> None]
       /\ loc = GeotiffLocals
       /\ ret = None
    \/ /\ pc = "open"
       /\ \E m \in Modes, wh \in CapDims :
             args = [fn |-> "extract_from_image",
                     image |-> [mode |-> m, size |-> wh, filter |-> <<>>]]
       /\ loc = ImageLocals
       /\ ret = None

\* lines 113-117: open, and convert to RGB unless the image is RGB already
OpenImage ==
    /\ pc = "open"
    /\ args.fn = "extract_from_image"
    /\ loc' = [loc EXCEPT !.img =
                 IF args.image.mode # "RGB"
                 THEN [args.image EXCEPT !.mode = "RGB",
                                         !.filter = Append(@, <<"convert", args.image.mode>>)]
                 ELSE args.image]
    /\ pc' = "image"
    /\ UNCHANGED <<args, ret>>

\* lines 119-125
ImageSize ==
    /\ pc = "image"
    /\ args.fn = "extract_from_image"
    /\ loc' = [loc EXCEPT
                 !.original_width = loc.img.size[1],
                 !.original_height = loc.img.size[2],
                 !.new_size = IF Exceeds(loc.img.size[1], loc.img.size[2])
                              THEN NewSize(loc.img.size[1], loc.img.size[2])
                              ELSE <<>>]
    /\ pc' = "resize"
    /\ UNCHANGED <<args, ret>>

\* lines 123, 126
ImageResize ==
    /\ pc = "resize"
    /\ args.fn = "extract_from_image"
    /\ loc.new_size # <<>> => SizeAccepted(loc.new_size)
    /\ loc' = [loc EXCEPT !.img = IF loc.new_size # <<>>
                                  THEN Resized(@, loc.new_size) ELSE @]
    /\ pc' = "encode"
    /\ UNCHANGED <<args, ret>>

\* line 126: Image.resize raises ValueError on a size with a zero side
ImageResizeFails ==
    /\ pc = "resize"
    /\ args.fn = "extract_from_image"
    /\ loc.new_size # <<>>
    /\ ~SizeAccepted(loc.new_size)
    /\ pc' = "raised"
    /\ ret' = "ValueError"
    /\ UNCHANGED <<args, loc>>

\* lines 128-140
ReturnImage ==
    /\ pc = "encode"
    /\ args.fn = "extract_from_image"
    /\ ret' = [texture_b64 |-> Jpeg85(loc.img),
               width |-> loc.img.size[1],
               height |-> loc.img.size[2],
               original_width |-> loc.original_width,
               original_height |-> loc.original_height]
    /\ pc' = "done"
    /\ UNCHANGED <<args, loc>>

NextCap ==
    \/ StackRGB8
    \/ RescaleRGB
    \/ NormalizeSingleBand
    \/ GeotiffSize
    \/ GeotiffResize
    \/ GeotiffResizeFails
    \/ ReturnGeotiff
    \/ OpenImage
    \/ ImageSize
    \/ ImageResize
    \/ ImageResizeFails
    \/ ReturnImage

SpecCap == InitCap /\ [][NextCap]_vars

\* the width and height of the source, before any resize
SrcW == IF args.fn = "extract_from_image" THEN args.image.size[1] ELSE args.src.width

SrcH == IF args.fn = "extract_from_image" THEN args.image.size[2] ELSE args.src.height

TextureFn == args.fn \in {"extract_geotiff_data", "extract_from_image"}

\* C5 as stated: the working size has width and height <= 2048; it is the
\* source size when both sides are within 2048, and otherwise both sides are
\* scaled by min(2048/w, 2048/h) so that the long side becomes 2048 (4000x1000
\* gives 2048x512); original_width and original_height report w and h.
C5_CapOnLongSide ==
    (TextureFn /\ pc = "done") =>
      /\ ret.width <= max_dim /\ ret.height <= max_dim
      /\ ret.original_width = SrcW /\ ret.original_height = SrcH
      /\ (SrcW <= max_dim /\ SrcH <= max_dim) =>
           ret.width = SrcW /\ ret.height = SrcH
      /\ (SrcW > max_dim \/ SrcH > max_dim) =>
           /\ Max2(ret.width, ret.height) = max_dim
           /\ (SrcW >= SrcH) = (ret.width >= ret.height)
      /\ (SrcW = 4000 /\ SrcH = 1000) => (ret.width = 2048 /\ ret.height = 512)

\* C10 as stated: the size computed by the dimension cap always has
\* width >= 1 and height >= 1, so the resize never receives a zero dimension.
C10_NoZeroDimension ==
    (TextureFn /\ pc \in {"resize", "encode", "done", "raised"} /\ loc.new_size # <<>>) =>
      /\ loc.new_size[1] >= 1
      /\ loc.new_size[2] >= 1

(***************************************************************************)
(* process_heightmap(file_path, target_size)                               *)
(***************************************************************************)
MaxSide == 6

MaxTarget == 3

HeightSides == (1..MaxSide) \cup {200, 300}

Targets == (1..MaxTarget) \cup {512}

InitHeight ==
    /\ pc = "open"
    /\ \E m \in {"L", "RGB"}, w \in HeightSides, h \in HeightSides, t \in Targets :
          args = [fn |-> "process_heightmap",
                  image |-> [mode |-> m, size |-> <<w, h>>, filter |-> <<>>],
                  target_size |-> t]
    /\ loc = [img |-> None, w |-> 0, h |-> 0, max_dim |-> 0, square |-> None,
              offset |-> <<>>, final |-> None]
    /\ ret = None

\* lines 148-151: grayscale, then a Gaussian blur of radius 1
OpenGray ==
    /\ pc = "open"
    /\ args.fn = "process_heightmap"
    /\ loc' = [loc EXCEPT !.img =
                 [args.image EXCEPT !.mode = "L",
                                    !.filter = @ \o << <<"convert", args.image.mode>>,
                                                       <<"GaussianBlur", 1>> >>]]
    /\ pc' = "square"
    /\ UNCHANGED <<args, ret>>

\* a plausible slip: the remainder pushed to the top/left
OffsetCeil(max_side, w, h) == <<(max_side - w + 1) \div 2, (max_side - h + 1) \div 2>>

\* line 157
Offset(max_side, w, h) == <<(max_side - w) \div 2, (max_side - h) \div 2>>

\* lines 154-158: Image.new('L', (max_dim, max_dim), 0) and paste at offset;
\* box is the pasted region (left, upper, right, lower)
MakeSquare ==
    /\ pc = "square"
    /\ args.fn = "process_heightmap"
    /\ LET w == loc.img.size[1]
           h == loc.img.size[2]
           m == Max2(w, h)
           offset == Offset(m, w, h)
       IN  loc' = [loc EXCEPT
                     !.w = w, !.h = h, !.max_dim = m, !.offset = offset,
                     !.square = [mode |-> "L", size |-> <<m, m>>, fill |-> 0,
                                 pasted |-> loc.img,
                                 box |-> <<offset[1], offset[2],
                                           offset[1] + w, offset[2] + h>>,
                                 filter |-> <<>>]]
    /\ pc' = "final"
    /\ UNCHANGED <<args, ret>>

\* line 161
ResizeSquare ==
    /\ pc = "final"
    /\ args.fn = "process_heightmap"
    /\ loc' = [loc EXCEPT !.final =
                 Resized(loc.square, <<args.target_size, args.target_size>>)]
    /\ pc' = "encode"
    /\ UNCHANGED <<args, ret>>

\* lines 163-168: the PNG bytes, base64-encoded, kept as the image they encode
ReturnHeightmap ==
    /\ pc = "encode"
    /\ args.fn = "process_heightmap"
    /\ ret' = [codec |-> "PNG", img |-> loc.final]
    /\ pc' = "done"
    /\ UNCHANGED <<args, loc>>

NextHeight ==
    \/ OpenGray
    \/ MakeSquare
    \/ ResizeSquare
    \/ ReturnHeightmap

SpecHeight == InitHeight /\ [][NextHeight]_vars

HeightDone == args.fn = "process_heightmap" /\ pc = "done"

\* C9: the image is pasted onto a zero-filled square canvas of side max(w, h)
\* at offset (floor((max-w)/2), floor((max-h)/2)): the content lies wholly
\* inside the canvas, the padding before and after it along each axis differs
\* by at most one pixel with the smaller share on the top/left, and the output
\* is exactly t x t (300x200 pads to 300x300 with 50 rows above and below,
\* then resizes to 512x512).
C9_CenteredSquare ==
    HeightDone =>
      LET w  == args.image.size[1]
          h  == args.image.size[2]
          t  == args.target_size
          m  == IF w >= h THEN w ELSE h
          sq == loc.square
          left   == sq.box[1]
          top    == sq.box[2]
          right  == m - sq.box[3]
          bottom == m - sq.box[4]
      IN  /\ sq.size = <<m, m>> /\ sq.fill = 0
          /\ sq.pasted.size = <<w, h>>
          /\ 2 * left <= m - w /\ m - w < 2 * left + 2
          /\ 2 * top <= m - h /\ m - h < 2 * top + 2
          /\ left >= 0 /\ top >= 0 /\ sq.box[3] <= m /\ sq.box[4] <= m
          /\ sq.box[3] - sq.box[1] = w /\ sq.box[4] - sq.box[2] = h
          /\ right - left \in {0, 1}
          /\ bottom - top \in {0, 1}
          /\ ret.img.size = <<t, t>>
          /\ ret.img.pasted = sq.pasted /\ ret.img.box = sq.box
          /\ (w = 300 /\ h = 200) =>
               (sq.size = <<300, 300>> /\ top = 50 /\ bottom = 50 /\ left = 0 /\ right = 0)

C9_Witness ==
    /\ HeightDone
    /\ args.image.size = <<300, 200>>
    /\ args.target_size = 512
    /\ loc.square.size = <<300, 300>>
    /\ loc.square.box = <<0, 50, 300, 250>>
    /\ ret.img.size = <<512, 512>>

====
